---- MODULE Spec2Model ----
(***************************************************************************)
(* A Bloom filter whose bit array lives in a Redis string                  *)
(* (devptyagi/redis-bloom-go, package bloom).                              *)
(*                                                                         *)
(* The model has three layers, as the source has:                          *)
(*   - calculateOptimalParameters            (src/bloom/redis.go)          *)
(*   - the hash strategies, getHashPositions (src/unnamed/part_001,        *)
(*                                            src/bloom/bloom.go)          *)
(*   - NewBloomFilter, Add, Exists           (src/bloom/bloom.go)          *)
(* and the remote store the filter talks to: a pipeline is a queue of      *)
(* commands the store applies one at a time, other callers' commands and   *)
(* the store's own key expiry may interleave between two of them.          *)
(***************************************************************************)
EXTENDS Integers, Naturals, Sequences, FiniteSets, Bags, TLC

(***************************************************************************)
(* State.                                                                  *)
(*   bf     the handle NewBloomFilter returned, shared by the callers      *)
(*   store  the remote store                                               *)
(*   ncalls the number of calls started so far                             *)
(*   calls  the bag of the Add and Exists calls in flight, one per caller  *)
(*          that is in a call: its position (pc), the pipeline's queued    *)
(*          commands (cmds), how many of them the store has applied        *)
(*          (done), the bits read (vals), the calls made (execs, expires)  *)
(*   last   the call that has just returned, until its caller takes the    *)
(*          result, with what its Exec and Expire returned (execErr,       *)
(*          expireErr) and what it returned to the caller (val, err)       *)
(* History, used only to state properties:                                 *)
(*   everSet     offsets a SETBIT of some Add has written on the key       *)
(*   directSet   offsets a SetBit sent through the adapter, outside any    *)
(*               Add, has set on the key                                   *)
(*   added       elements whose Add returned nil, no key drop since the    *)
(*               return                                                    *)
(*   addedClean  the same with no key drop since the Add's batch began     *)
(*   prev        the last successful Add and the bits it left              *)
(*   ctor        in a run of calls: the Config of the handle, the second   *)
(*               handle built for the same filter and, in a run on two     *)
(*               handles, which calls failed and the ticks of the clock    *)
(*               since the last Add returned nil                           *)
(* Construction, followed on its own (the filter above is the handle of a  *)
(* valid Config):                                                          *)
(*   ctor   the Config handed to NewBloomFilter, what it returned, and     *)
(*          what the first use of the handle did                           *)
(***************************************************************************)
VARIABLES bf, store, calls, last, ncalls, everSet, directSet, added, addedClean, prev, ctor

vars == <<bf, store, calls, last, ncalls, everSet, directSet, added, addedClean, prev, ctor>>

(***************************************************************************)
(* Bounds of the model.                                                    *)
(***************************************************************************)
NumCallers == 2
TTLTicks == 1
MaxCalls == 3

(***************************************************************************)
(* Unsigned 64-bit values are four 16-bit limbs, least significant first,  *)
(* so that every intermediate value stays inside the checker's integers.   *)
(* uint32 values are two such limbs.                                       *)
(***************************************************************************)
Limb == 65536

U64FromSmall(n) == <<n % Limb, (n \div Limb) % Limb, 0, 0>>

\* a + b mod 2^64
U64Add(a, b) ==
    LET s1 == a[1] + b[1]
        s2 == a[2] + b[2] + (s1 \div Limb)
        s3 == a[3] + b[3] + (s2 \div Limb)
        s4 == a[4] + b[4] + (s3 \div Limb)
    IN  <<s1 % Limb, s2 % Limb, s3 % Limb, s4 % Limb>>

\* i * a mod 2^64, for a small natural i (uint64(i) * h2)
U64MulSmall(i, a) ==
    LET p1 == i * a[1]
        p2 == i * a[2] + (p1 \div Limb)
        p3 == i * a[3] + (p2 \div Limb)
        p4 == i * a[4] + (p3 \div Limb)
    IN  <<p1 % Limb, p2 % Limb, p3 % Limb, p4 % Limb>>

\* a % m for 0 < m < 2^15, most significant limb first
U64Mod(a, m) ==
    LET r4 == a[4] % m
        r3 == (r4 * Limb + a[3]) % m
        r2 == (r3 * Limb + a[2]) % m
    IN  (r2 * Limb + a[1]) % m

\* i * a mod 2^32 for uint32 a (two limbs)
U32MulSmall(i, a) ==
    LET p1 == i * a[1]
        p2 == i * a[2] + (p1 \div Limb)
    IN  <<p1 % Limb, p2 % Limb>>

U64FromU32(a) == <<a[1], a[2], 0, 0>>

\* a < b
U64Less(a, b) ==
    \/ a[4] < b[4]
    \/ a[4] = b[4] /\ a[3] < b[3]
    \/ a[4] = b[4] /\ a[3] = b[3] /\ a[2] < b[2]
    \/ a[4] = b[4] /\ a[3] = b[3] /\ a[2] = b[2] /\ a[1] < b[1]

\* a - b mod 2^64
U64Sub(a, b) ==
    LET d1 == a[1] - b[1]
        d2 == a[2] - b[2] - (IF d1 < 0 THEN 1 ELSE 0)
        d3 == a[3] - b[3] - (IF d2 < 0 THEN 1 ELSE 0)
        d4 == a[4] - b[4] - (IF d3 < 0 THEN 1 ELSE 0)
    IN  <<d1 % Limb, d2 % Limb, d3 % Limb, d4 % Limb>>

RECURSIVE U64Rem(_, _, _)
\* a % (m * 2^s) for m >= 2^48: the remainder by twice as much first,
\* where that is below 2^64, then one subtraction
U64Rem(a, m, s) ==
    LET d == U64MulSmall(2 ^ s, m)
    IN  IF U64Less(a, d) THEN a
        ELSE LET r == IF d[4] < 32768 THEN U64Rem(a, m, s + 1) ELSE a
             IN  IF U64Less(r, d) THEN r ELSE U64Sub(r, d)

\* a % m as a uint64, for 0 < m < 2^15 and for m >= 2^48
U64ModWide(a, m) ==
    IF m[4] = 0 /\ m[3] = 0 /\ m[2] = 0
    THEN U64FromSmall(U64Mod(a, m[1]))
    ELSE U64Rem(a, m, 0)

\* int64(x): the same 64 bits read as two's complement
Int64(x) ==
    IF x[4] >= 32768
    THEN [neg |-> TRUE, abs |-> U64Sub(<<0, 0, 0, 0>>, x)]
    ELSE [neg |-> FALSE, abs |-> x]

(***************************************************************************)
(* Elements are byte sequences.                                            *)
(***************************************************************************)
Elements == {<<97>>, <<103>>}

\* with "ay", whose first XXHash value is above 2^63
ProbeElements == Elements \cup {<<97, 121>>}

(***************************************************************************)
(* The three hash libraries, tabulated on the byte strings the strategies  *)
(* feed them for ProbeElements and the rounds 0 and 1 (values of the        *)
(* reference implementations of XXH64 seed 0, MurmurHash3 x86_32 and       *)
(* FNV-1a 64).                                                             *)
(***************************************************************************)
xxhashSum64(b) ==
    CASE b = <<0, 0, 0, 0, 97>> -> <<27166, 8696, 32170, 30581>>
      [] b = <<0, 0, 0, 0, 103>> -> <<27940, 45774, 50084, 35107>>
      [] b = <<135, 202, 235, 133, 97>> -> <<17362, 34756, 53656, 3832>>
      [] b = <<135, 202, 235, 133, 103>> -> <<44622, 9625, 1639, 34779>>
      [] b = <<0, 0, 0, 0, 97, 121>> -> <<52335, 22230, 10966, 33629>>
      [] b = <<135, 202, 235, 133, 97, 121>> -> <<11493, 10827, 30997, 14175>>

murmur3Sum32WithSeed(data, seed) ==
    CASE data = <<97>> /\ seed = <<0, 0>> -> <<27058, 15397>>
      [] data = <<103>> /\ seed = <<0, 0>> -> <<58390, 61834>>
      [] data = <<97>> /\ seed = <<31161, 40503>> -> <<48324, 27688>>
      [] data = <<103>> /\ seed = <<31161, 40503>> -> <<6332, 37948>>
      [] data = <<97, 121>> /\ seed = <<0, 0>> -> <<16526, 12858>>
      [] data = <<97, 121>> /\ seed = <<31161, 40503>> -> <<39942, 32031>>

fnvSum64a(b) ==
    CASE b = <<0, 0, 0, 0, 97>> -> <<17532, 9515, 61145, 58555>>
      [] b = <<0, 0, 0, 0, 103>> -> <<16662, 9515, 60633, 58555>>
      [] b = <<1, 0, 0, 0, 97>> -> <<56703, 42971, 3502, 55309>>
      [] b = <<1, 0, 0, 0, 103>> -> <<55833, 42971, 2990, 55309>>
      [] b = <<0, 0, 0, 0, 97, 121>> -> <<38015, 10372, 57338, 54938>>
      [] b = <<1, 0, 0, 0, 97, 121>> -> <<37170, 15000, 17863, 64011>>

(***************************************************************************)
(* The hash strategies.                                                    *)
(***************************************************************************)
\* 0x9e3779b185ebca87 and 0x9e3779b9
XXGolden == <<51847, 34283, 31153, 40503>>
MurmurGolden == <<31161, 40503>>

\* seed := uint64(i) * golden; the four low bytes of seed, then data
XXHashStrategyHash(data, i) ==
    LET seed == U64MulSmall(i, XXGolden)
    IN  xxhashSum64(<<seed[1] % 256, seed[1] \div 256,
                      seed[2] % 256, seed[2] \div 256>> \o data)

\* seed := uint32(i) * golden; the 32-bit sum widened to 64 bits
Murmur3StrategyHash(data, i) ==
    U64FromU32(murmur3Sum32WithSeed(data, U32MulSmall(i, MurmurGolden)))

\* the four low bytes of i, then data
FNVStrategyHash(data, i) ==
    fnvSum64a(<<i % 256, (i \div 256) % 256,
                (i \div 65536) % 256, (i \div 16777216) % 256>> \o data)

\* a strategy that keeps state between calls (a hasher reused without reset)
Hash_Stateful(strategy, data, i) ==
    LET h == CASE strategy = "xxhash" -> XXHashStrategyHash(data, i)
               [] strategy = "murmur3" -> Murmur3StrategyHash(data, i)
               [] strategy = "fnv" -> FNVStrategyHash(data, i)
    IN  U64Add(h, U64FromSmall(ncalls))

Hash(strategy, data, i) ==
    CASE strategy = "xxhash" -> XXHashStrategyHash(data, i)
      [] strategy = "murmur3" -> Murmur3StrategyHash(data, i)
      [] strategy = "fnv" -> FNVStrategyHash(data, i)

(***************************************************************************)
(* calculateOptimalParameters.  FalsePositiveRate is held in hundredths    *)
(* (50 is 0.5); logarithms are held to twelve decimals.  The float         *)
(* values that are no number of hundredths are NaN, +Inf and -Inf; a       *)
(* comparison with NaN is false, whatever the operator.                    *)
(***************************************************************************)
NaN == -2000000000
PosInf == 1000000000
NegInf == -1000000000

\* a <= b and a >= b on float64
FloatLE(a, b) == a # NaN /\ b # NaN /\ a <= b
FloatGE(a, b) == a # NaN /\ b # NaN /\ a >= b

\* A real number is held as the integer nearest to 10^12 times it (twelve
\* decimals), written in base 10^4 as DecLen digits, least significant
\* first.  The results agree with the float64 arithmetic of lines 69-74
\* for every n up to 20000 at the rates of NegLog.
Base == 10000
DecLen == 6
Scale == 3

DecFromInt(n) ==
    [i \in 1..DecLen |->
        CASE i = 1 -> n % Base
          [] i = 2 -> (n \div Base) % Base
          [] i = 3 -> n \div (Base * Base)
          [] OTHER -> 0]

\* x * Base^s
DecShift(x, s) == [i \in 1..DecLen |-> IF i <= s THEN 0 ELSE x[i - s]]

RECURSIVE DecMulFrom(_, _, _, _)
DecMulFrom(c, x, i, carry) ==
    IF i > DecLen THEN <<>>
    ELSE LET t == c * x[i] + carry
         IN  <<t % Base>> \o DecMulFrom(c, x, i + 1, t \div Base)

\* c * x, for an integer c
DecMul(c, x) == DecMulFrom(c, x, 1, 0)

RECURSIVE DecLEFrom(_, _, _)
DecLEFrom(x, y, i) ==
    IF i = 0 THEN TRUE
    ELSE IF x[i] # y[i] THEN x[i] < y[i]
    ELSE DecLEFrom(x, y, i - 1)

\* x <= y
DecLE(x, y) == DecLEFrom(x, y, DecLen)

\* the integer part of x / Base^(i - 1)
RECURSIVE DecHigh(_, _)
DecHigh(x, i) == IF i > DecLen THEN 0 ELSE x[i] + Base * DecHigh(x, i + 1)

\* the place of the leading digit of x # 0
DecTop(x) == CHOOSE i \in 1..DecLen : x[i] # 0 /\ \A j \in (i + 1)..DecLen : x[j] = 0

RECURSIVE LeastFrom(_, _, _)
LeastFrom(c, num, den) ==
    IF DecLE(num, DecMul(c, den)) THEN c ELSE LeastFrom(c + 1, num, den)

\* the least integer c with c * den >= num, searched upwards from a lower
\* estimate of num / den taken from the leading digits
LeastMultiple(num, den) ==
    LeastFrom(DecHigh(num, DecTop(den)) \div (den[DecTop(den)] + 1), num, den)

\* math.Ln2, line 69
Ln2 == <<560, 4718, 6931, 0, 0, 0>>
\* ln 2 in place of its square
Ln2Squared_Unsquared == Ln2

\* ln2 * ln2, line 70
Ln2Squared == <<3918, 5301, 4804, 0, 0, 0>>

\* -math.Log(p / 100), line 71
NegLog(p) ==
    CASE p = 1 -> <<5988, 7018, 6051, 4, 0, 0>>
      [] p = 10 -> <<2994, 8509, 3025, 2, 0, 0>>
      [] p = 25 -> <<1120, 9436, 3862, 1, 0, 0>>
      [] p = 50 -> <<560, 4718, 6931, 0, 0, 0>>
      [] p = 99 -> <<5854, 5033, 100, 0, 0, 0>>

\* math.Ceil(num / den), lines 71 and 74
Ceil(num, den) == LeastMultiple(num, den)

\* the hash rounds come from the quotient before it is rounded up to bits
calculateOptimalParameters_FromRaw(n, p) ==
    LET bitSize == Ceil(DecMul(n, NegLog(p)), Ln2Squared)
        k == Ceil(NegLog(p), Ln2)
        hashCount == IF k < 1 THEN 1 ELSE k
    IN  [bitSize |-> bitSize, hashCount |-> hashCount]

\* the result depends on a value kept between calls: after the first call
\* the bit size comes out one larger
calculateOptimalParameters_Drift(n, p) ==
    LET bitSize == Ceil(DecMul(n, NegLog(p)), Ln2Squared)
                       + (IF ctor.pc = "config" THEN 0 ELSE 1)
        k == Ceil(DecMul(bitSize, Ln2), DecShift(DecFromInt(n), Scale))
        hashCount == IF k < 1 THEN 1 ELSE k
    IN  [bitSize |-> bitSize, hashCount |-> hashCount]

\* lines 67-82: bitSize, then hashCount from bitSize, at least 1
calculateOptimalParameters(n, p) ==
    LET bitSize == Ceil(DecMul(n, NegLog(p)), Ln2Squared)
        k == Ceil(DecMul(bitSize, Ln2), DecShift(DecFromInt(n), Scale))
        hashCount == IF k < 1 THEN 1 ELSE k
    IN  [bitSize |-> bitSize, hashCount |-> hashCount]

\* the valid ExpectedInsertions and FalsePositiveRates the specifications
\* draw, and calculateOptimalParameters on them, evaluated once
ValidInsertions == {1, 3, 94, 1000}
ValidRates == {1, 50, 99}
Calculated ==
    {[n |-> n, p |-> p, params |-> calculateOptimalParameters(n, p)] :
        n \in ValidInsertions, p \in ValidRates}

OptimalParameters(n, p) ==
    IF n \in ValidInsertions /\ p \in ValidRates
    THEN (CHOOSE c \in Calculated : c.n = n /\ c.p = p).params
    ELSE calculateOptimalParameters(n, p)

(***************************************************************************)
(* Config, the errors, NewBloomFilter and getHashPositions.                *)
(* RedisClient is "nil", "adapter" (a *RedisAdapter), "wrapper" (another   *)
(* implementation of the RedisClient interface that forwards to the same   *)
(* store), "nopipe" (an implementation whose Pipeline() yields nil) or     *)
(* "noclient" (NewRedisAdapter(nil), a *RedisAdapter that holds no client).*)
(* HashStrategy is "nil" or one of the three strategies.                   *)
(***************************************************************************)
NoError == "nil"
ErrInvalidExpectedInsertions == "expected insertions must be greater than 0"
ErrInvalidFalsePositiveRate == "false positive rate must be between 0 and 1"
ErrEmptyRedisKey == "redis key cannot be empty"
ErrNilRedisClient == "redis client cannot be nil"

\* errors the store's client library returns from Exec or Expire
StoreErrors == {"i/o timeout", "connection reset"}

NilHandle == [config |-> "nil", bitSize |-> 0, hashCount |-> 0, hashStrategy |-> "nil"]

NewXXHashStrategy == "xxhash"

\* an empty key is reported with the error of a nil client
Validate_OneError(cfg) ==
    IF cfg.ExpectedInsertions = 0 THEN ErrInvalidExpectedInsertions
    ELSE IF FloatLE(cfg.FalsePositiveRate, 0) \/ FloatGE(cfg.FalsePositiveRate, 100)
    THEN ErrInvalidFalsePositiveRate
    ELSE IF cfg.RedisKey = "" THEN ErrNilRedisClient
    ELSE IF cfg.RedisClient = "nil" THEN ErrNilRedisClient
    ELSE NoError

\* lines 41-52: the four checks, in the order of the source
Validate(cfg) ==
    IF cfg.ExpectedInsertions = 0 THEN ErrInvalidExpectedInsertions
    ELSE IF FloatLE(cfg.FalsePositiveRate, 0) \/ FloatGE(cfg.FalsePositiveRate, 100)
    THEN ErrInvalidFalsePositiveRate
    ELSE IF cfg.RedisKey = "" THEN ErrEmptyRedisKey
    ELSE IF cfg.RedisClient = "nil" THEN ErrNilRedisClient
    ELSE NoError

\* the default strategy is FNV
NewBloomFilter_DefaultFNV(cfg) ==
    IF Validate(cfg) # NoError
    THEN [bf |-> NilHandle, err |-> Validate(cfg)]
    ELSE LET params == OptimalParameters(cfg.ExpectedInsertions,
                                                   cfg.FalsePositiveRate)
             strategy == IF cfg.HashStrategy = "nil" THEN "fnv"
                         ELSE cfg.HashStrategy
         IN  [bf |-> [config |-> [cfg EXCEPT !.HashStrategy = strategy],
                      bitSize |-> params.bitSize,
                      hashCount |-> params.hashCount,
                      hashStrategy |-> strategy],
              err |-> NoError]

NewBloomFilter(cfg) ==
    IF Validate(cfg) # NoError
    THEN [bf |-> NilHandle, err |-> Validate(cfg)]
    ELSE LET params == OptimalParameters(cfg.ExpectedInsertions,
                                                   cfg.FalsePositiveRate)
             strategy == IF cfg.HashStrategy = "nil" THEN NewXXHashStrategy
                         ELSE cfg.HashStrategy
         IN  [bf |-> [config |-> [cfg EXCEPT !.HashStrategy = strategy],
                      bitSize |-> params.bitSize,
                      hashCount |-> params.hashCount,
                      hashStrategy |-> strategy],
              err |-> NoError]

\* positions[i] = (h1 + uint64(i) * h2) % bitSize, i = 0 .. hashCount-1
getHashPositions(h, data) ==
    LET h1 == Hash(h.hashStrategy, data, 0)
        g2 == Hash(h.hashStrategy, data, 1)
        h2 == IF g2[1] % 2 = 0 THEN U64Add(g2, U64FromSmall(1)) ELSE g2
    IN  [i \in 1..h.hashCount |->
            U64Mod(U64Add(h1, U64MulSmall(i - 1, h2)), h.bitSize)]

FilterKey == "bloom"

ValidParams == {[n |-> 3, p |-> 50]}
Clients == {"adapter", "wrapper", "nopipe"}
Strategies == {"nil"}

Configs ==
    {[RedisKey |-> FilterKey, RedisClient |-> cl,
      ExpectedInsertions |-> np.n, FalsePositiveRate |-> np.p,
      TTL |-> ttl, HashStrategy |-> hs] :
        cl \in Clients, np \in ValidParams, ttl \in {0, TTLTicks}, hs \in Strategies}

\* the Configs of the handles of a run on two handles: a TTL below zero is
\* among them
SharedConfigs ==
    {[RedisKey |-> FilterKey, RedisClient |-> cl,
      ExpectedInsertions |-> np.n, FalsePositiveRate |-> np.p,
      TTL |-> ttl, HashStrategy |-> hs] :
        cl \in Clients, np \in ValidParams, ttl \in {-1, 0, TTLTicks},
        hs \in Strategies}

\* the positions of each element on each handle built from Configs or
\* SharedConfigs, computed once
Positioned ==
    {[h |-> NewBloomFilter(cfg).bf, data |-> data,
      positions |-> getHashPositions(NewBloomFilter(cfg).bf, data)] :
        cfg \in SharedConfigs, data \in Elements}

\* getHashPositions(h, data), looked up, for such a handle h
Positions(h, data) ==
    (CHOOSE t \in Positioned : t.h = h /\ t.data = data).positions

\* RedisClient.Pipeline(): the pipeline, or nil; (*RedisAdapter).Pipeline()
\* calls ra.client.Pipeline() and aborts when the adapter holds no client
Pipeline(client) ==
    CASE client = "nopipe" -> "nil"
      [] client = "noclient" -> "panic"
      [] OTHER -> "pipe"

\* the loop over the positions stops one short
AddCmds_SkipLast(h, data) ==
    LET positions == getHashPositions(h, data)
    IN  [i \in 1..(Len(positions) - 1) |->
            [name |-> "SETBIT", key |-> h.config.RedisKey,
             offset |-> positions[i], value |-> 1]]

\* the commands go to a key of the handle's own client
AddCmds_KeyPerClient(h, data) ==
    LET positions == getHashPositions(h, data)
    IN  [i \in 1..Len(positions) |->
            [name |-> "SETBIT",
             key |-> IF h.config.RedisClient = "wrapper" THEN "other"
                     ELSE h.config.RedisKey,
             offset |-> positions[i], value |-> 1]]

\* the last SetBit of the batch writes 0
AddCmds_ZeroLast(h, data) ==
    LET positions == getHashPositions(h, data)
    IN  [i \in 1..Len(positions) |->
            [name |-> "SETBIT", key |-> h.config.RedisKey,
             offset |-> positions[i],
             value |-> IF i = Len(positions) THEN 0 ELSE 1]]

\* the commands Add queues: SetBit(key, int64(pos), 1) for each position
AddCmds(h, data) ==
    LET positions == getHashPositions(h, data)
    IN  [i \in 1..Len(positions) |->
            [name |-> "SETBIT", key |-> h.config.RedisKey,
             offset |-> positions[i], value |-> 1]]

\* the commands Exists queues: GetBit(key, int64(pos)) for each position
ExistsCmds(h, data) ==
    LET positions == getHashPositions(h, data)
    IN  [i \in 1..Len(positions) |->
            [name |-> "GETBIT", key |-> h.config.RedisKey,
             offset |-> positions[i], value |-> 0]]

\* the commands Add and Exists queue for each element on each such
\* handle, computed once
AddQueues ==
    {[h |-> NewBloomFilter(cfg).bf, data |-> data,
      cmds |-> AddCmds(NewBloomFilter(cfg).bf, data)] :
        cfg \in SharedConfigs, data \in Elements}

ExistsQueues ==
    {[h |-> NewBloomFilter(cfg).bf, data |-> data,
      cmds |-> ExistsCmds(NewBloomFilter(cfg).bf, data)] :
        cfg \in SharedConfigs, data \in Elements}

\* AddCmds(h, data) and ExistsCmds(h, data), looked up, for such a handle h
AddQueue(h, data) ==
    (CHOOSE t \in AddQueues : t.h = h /\ t.data = data).cmds

ExistsQueue(h, data) ==
    (CHOOSE t \in ExistsQueues : t.h = h /\ t.data = data).cmds

(***************************************************************************)
(* The store: per key the set of offsets whose bit is 1 and the remaining  *)
(* lifetime in ticks (0: the key has no expiry).  A key exists iff one of  *)
(* its bits is set.                                                        *)
(***************************************************************************)
Keys == {FilterKey, "other"}

\* a key that does not exist; a key that exists (live) may hold no 1 bit
EmptyKey == [bits |-> {}, ttl |-> 0, live |-> FALSE]

\* SETBIT replaces the bitmap instead of changing one bit of it
StoreSetBit_Overwrite(st, key, offset, value) ==
    [st EXCEPT ![key].bits = IF value = 1 THEN {offset} ELSE {},
               ![key].live = TRUE]

\* SETBIT key offset value: a missing key is created
StoreSetBit(st, key, offset, value) ==
    [st EXCEPT ![key].bits = IF value = 1 THEN @ \cup {offset} ELSE @ \ {offset},
               ![key].live = TRUE]

\* GETBIT key offset: a missing key reads as 0
StoreGetBit(st, key, offset) == IF offset \in st[key].bits THEN 1 ELSE 0

\* EXPIRE key ttl: no effect on a missing key
StoreExpire(st, key, ttl) ==
    IF ~st[key].live THEN st ELSE [st EXCEPT ![key].ttl = ttl]

\* one tick of the store's clock: a key whose lifetime ends is dropped whole
StoreTick(st) ==
    [k \in Keys |-> IF st[k].ttl = 1 THEN EmptyKey
                    ELSE IF st[k].ttl > 1 THEN [st[k] EXCEPT !.ttl = @ - 1]
                    ELSE st[k]]

InitCall ==
    [pc |-> "idle", op |-> "none", data |-> <<>>, cmds |-> <<>>, done |-> 0,
     vals |-> <<>>, execs |-> 0, expires |-> 0,
     execErr |-> NoError, expireErr |-> NoError, val |-> FALSE, err |-> NoError,
     clean |-> FALSE, must |-> FALSE, mustClean |-> FALSE,
     after |-> FALSE, aged |-> FALSE]

NoPrev == [valid |-> FALSE, data |-> <<>>, bits |-> {}, n |-> 0]

\* ctor of a run of calls: the Config of the handle, the Config of the
\* second handle and that handle, and the history of a run on two handles:
\* whether the batch of a call has failed, whether a failed Add had set
\* some of its bits and not all, the elements whose Add failed, those
\* whose Add, begun after such a failure, returned nil, and the ticks of
\* the clock since the last Add returned nil (-1: none has), counted up to
\* TTLTicks
Run(pc, cfg, cfg2) ==
    [pc |-> pc, cfg |-> cfg, cfg2 |-> cfg2, bf2 |-> NewBloomFilter(cfg2).bf,
     failed |-> FALSE, partial |-> FALSE, failedAdds |-> {}, readded |-> {},
     age |-> -1]

\* a run on one handle: the second handle is the first
Init ==
    /\ \E cfg \in Configs : /\ bf = NewBloomFilter(cfg).bf
                              /\ ctor = Run("none", cfg, cfg)
    /\ store = [k \in Keys |-> EmptyKey]
    /\ calls = EmptyBag
    /\ last = InitCall
    /\ ncalls = 0
    /\ everSet = {}
    /\ directSet = {}
    /\ added = {}
    /\ addedClean = {}
    /\ prev = NoPrev

One(r) == SetToBag({r})

InFlight == BagToSet(calls)

\* the bag of f[r], r in B
MapBag(B, f) ==
    [x \in {f[r] : r \in BagToSet(B)} |->
        Cardinality({p \in BagToSet(B) \X (1..NumCallers) :
                        p[2] <= CopiesIn(p[1], B) /\ f[p[1]] = x})]

\* no call returned in the step just taken, or its result was taken
Quiet == last.pc = "idle"

\* a caller that is in no call starts one
MayStart ==
    /\ Quiet
    /\ BagCardinality(calls) < NumCallers
    /\ ncalls < MaxCalls

\* the call r moves on to r2
Step(r, r2) ==
    /\ Quiet
    /\ calls' = (calls (-) One(r)) (+) One(r2)
    /\ last' = InitCall

\* the call r returns as r2
Return(r, r2) ==
    /\ Quiet
    /\ calls' = calls (-) One(r)
    /\ last' = [r2 EXCEPT !.pc = "ret"]

(***************************************************************************)
(* The history of a run on two handles.  It is kept when a caller takes    *)
(* the result of its call and when the clock ticks; a run on one handle    *)
(* keeps none.                                                             *)
(***************************************************************************)
Noting == ctor.pc = "shared"

\* the handle Exists is called on: the second handle, which in a run on
\* one handle, or when its Config is that of the first, is the first
Reader == IF ctor.cfg2 = ctor.cfg THEN bf ELSE ctor.bf2

\* no Add and no SetBit sent directly is in flight
NoWriter == \A r \in InFlight : r.op \notin {"add", "setbit"}

\* the filter has a TTL, the TTL has elapsed since the last Add returned
\* nil, no Add is in flight, no batch has failed and nothing but Adds has
\* written to the key
Aged ==
    /\ Noting /\ Quiet
    /\ bf.config.TTL > 0 /\ ctor.age >= bf.config.TTL
    /\ ~ctor.failed /\ directSet = {} /\ NoWriter

\* ctor after a tick of the clock
Elapsed ==
    IF Noting /\ ctor.age >= 0 /\ ctor.age < TTLTicks
    THEN [ctor EXCEPT !.age = @ + 1] ELSE ctor

\* ctor after the caller took the result in last
Noted ==
    IF ~Noting THEN ctor
    ELSE LET failedAdd == last.op = "add" /\ last.execErr # NoError
             addedNow == last.op = "add" /\ last.err = NoError
         IN  [ctor EXCEPT
                 !.failed = @ \/ last.execErr # NoError,
                 !.partial = @ \/ (failedAdd /\ last.done > 0
                                            /\ last.done < Len(last.cmds)),
                 !.failedAdds = IF failedAdd THEN @ \cup {last.data} ELSE @,
                 !.readded = IF addedNow /\ last.after
                             THEN @ \cup {last.data} ELSE @,
                 !.age = IF addedNow THEN 0 ELSE @]

(***************************************************************************)
(* Add, lines 71-85: the positions, the pipeline, the queued SetBits; Exec *)
(* hands the batch to the store.  Without a pipeline Add returns           *)
(* ErrNilRedisClient.                                                      *)
(***************************************************************************)
AddStart(data) ==
    /\ MayStart
    /\ ncalls' = ncalls + 1
    /\ LET cmds == AddQueue(bf, data)
       IN  IF Pipeline(bf.config.RedisClient) = "nil"
           THEN /\ calls' = calls
                /\ last' = [InitCall EXCEPT !.pc = "ret", !.op = "add", !.data = data,
                                            !.err = ErrNilRedisClient]
           ELSE /\ calls' = calls (+) One(
                       [InitCall EXCEPT !.pc = "exec", !.op = "add", !.data = data,
                                        !.cmds = cmds, !.execs = 1, !.clean = TRUE,
                                        !.after = data \in ctor.failedAdds])
                /\ last' = InitCall
    /\ UNCHANGED <<ctor, bf, store, everSet, directSet, added, addedClean, prev>>

\* the store applies the whole batch of r in one step, as a transaction
StoreApplySetBit_Atomic(r) ==
    /\ r.pc = "exec" /\ r.op = "add"
    /\ r.done < Len(r.cmds)
    /\ store' = [store EXCEPT ![bf.config.RedisKey].bits =
                    @ \cup {r.cmds[i].offset : i \in 1..Len(r.cmds)},
                                ![bf.config.RedisKey].live = TRUE]
    /\ everSet' = everSet \cup {r.cmds[i].offset : i \in 1..Len(r.cmds)}
    /\ Step(r, [r EXCEPT !.done = Len(r.cmds)])
    /\ prev' = IF prev.valid /\ prev.data # r.data THEN NoPrev ELSE prev
    /\ UNCHANGED <<ctor, bf, ncalls, directSet, added, addedClean>>

\* the store applies the next SetBit of r's batch
StoreApplySetBit(r) ==
    /\ r.pc = "exec" /\ r.op = "add"
    /\ r.done < Len(r.cmds)
    /\ LET cmd == r.cmds[r.done + 1]
       IN  /\ store' = StoreSetBit(store, cmd.key, cmd.offset, cmd.value)
           /\ everSet' = IF cmd.key = FilterKey /\ cmd.value = 1
                         THEN everSet \cup {cmd.offset} ELSE everSet
    /\ Step(r, [r EXCEPT !.done = @ + 1])
    /\ prev' = IF prev.valid /\ prev.data # r.data THEN NoPrev ELSE prev
    /\ UNCHANGED <<ctor, bf, ncalls, directSet, added, addedClean>>

\* history kept when the Add r returns nil
AddReturned(r) ==
    /\ added' = added \cup {r.data}
    /\ addedClean' = IF r.clean THEN addedClean \cup {r.data} ELSE addedClean
    /\ prev' = IF ~r.clean THEN NoPrev
               ELSE IF prev.valid /\ prev.data = r.data
               THEN [prev EXCEPT !.n = IF @ < 2 THEN @ + 1 ELSE @]
               ELSE [valid |-> TRUE, data |-> r.data,
                     bits |-> store[bf.config.RedisKey].bits, n |-> 1]

\* a rollback: the bits the failed batch had set are cleared again
AddExecError_Rollback(r, e) ==
    /\ r.pc = "exec" /\ r.op = "add"
    /\ Return(r, [r EXCEPT !.execErr = e, !.err = e])
    /\ store' = [store EXCEPT ![bf.config.RedisKey].bits =
                    @ \ {r.cmds[i].offset : i \in 1..r.done}]
    /\ UNCHANGED <<ctor, bf, ncalls, everSet, directSet, added, addedClean, prev>>

\* a retry: the failed batch is executed once more
AddExecError_Retry(r, e) ==
    /\ r.pc = "exec" /\ r.op = "add"
    /\ IF r.execs < 2
       THEN Step(r, [r EXCEPT !.execs = @ + 1, !.done = 0])
       ELSE Return(r, [r EXCEPT !.execErr = e, !.err = e])
    /\ UNCHANGED <<ctor, bf, ncalls, store, everSet, directSet, added, addedClean, prev>>

\* a failed batch is remembered: the handle falls back to one hash round
AddExecError_Degrade(r, e) ==
    /\ r.pc = "exec" /\ r.op = "add"
    /\ Return(r, [r EXCEPT !.execErr = e, !.err = e])
    /\ bf' = [bf EXCEPT !.hashCount = 1]
    /\ UNCHANGED <<ctor, ncalls, store, everSet, directSet, added, addedClean, prev>>

\* a failed batch is remembered: the handle gives up its client, and the
\* calls that follow find no pipeline
AddExecError_Poisoned(r, e) ==
    /\ r.pc = "exec" /\ r.op = "add"
    /\ Return(r, [r EXCEPT !.execErr = e, !.err = e])
    /\ bf' = [bf EXCEPT !.config.RedisClient = "nopipe"]
    /\ UNCHANGED <<ctor, ncalls, store, everSet, directSet, added, addedClean, prev>>

\* Add, lines 85-88: Exec returned an error, after any number of the
\* batch's commands were applied
AddExecError(r, e) ==
    /\ r.pc = "exec" /\ r.op = "add"
    /\ Return(r, [r EXCEPT !.execErr = e, !.err = e])
    /\ UNCHANGED <<ctor, bf, ncalls, store, everSet, directSet, added, addedClean, prev>>

\* the guard of line 90 reads TTL != 0: a negative TTL is passed to Expire
AddExecOk_ExpireUnlessZero(r) ==
    /\ r.pc = "exec" /\ r.op = "add"
    /\ r.done = Len(r.cmds)
    /\ IF bf.config.TTL # 0 /\ bf.config.RedisClient = "adapter"
       THEN /\ Step(r, [r EXCEPT !.pc = "expire", !.expires = @ + 1])
            /\ UNCHANGED <<added, addedClean, prev>>
       ELSE /\ Return(r, [r EXCEPT !.err = NoError])
            /\ AddReturned(r)
    /\ UNCHANGED <<ctor, bf, ncalls, store, everSet, directSet>>

\* Add, lines 85-97: Exec returned nil; Expire is issued when TTL > 0 and
\* the client is a *RedisAdapter, else Add returns nil
AddExecOk(r) ==
    /\ r.pc = "exec" /\ r.op = "add"
    /\ r.done = Len(r.cmds)
    /\ IF bf.config.TTL > 0 /\ bf.config.RedisClient = "adapter"
       THEN /\ Step(r, [r EXCEPT !.pc = "expire", !.expires = @ + 1])
            /\ UNCHANGED <<added, addedClean, prev>>
       ELSE /\ Return(r, [r EXCEPT !.err = NoError])
            /\ AddReturned(r)
    /\ UNCHANGED <<ctor, bf, ncalls, store, everSet, directSet>>

\* line 93: the store applies the Expire of the Add r, which waits for
\* the reply
StoreApplyExpire(r) ==
    /\ r.pc = "expire"
    /\ store' = StoreExpire(store, bf.config.RedisKey, bf.config.TTL)
    /\ Step(r, [r EXCEPT !.pc = "expired"])
    /\ UNCHANGED <<ctor, bf, ncalls, everSet, directSet, added, addedClean, prev>>

\* lines 93-97: the reply to the Expire of the Add r has come; Add returns
\* nil
AddExpireOk(r) ==
    /\ r.pc = "expired"
    /\ Return(r, [r EXCEPT !.err = NoError])
    /\ AddReturned(r)
    /\ UNCHANGED <<ctor, bf, ncalls, store, everSet, directSet>>

\* lines 93-97: the Expire of the Add r fails, before or after the store
\* applied it; its result is dropped and Add returns nil
ExpireError(r, e) ==
    /\ r.pc \in {"expire", "expired"}
    /\ Return(r, [r EXCEPT !.expireErr = e, !.err = NoError])
    /\ AddReturned(r)
    /\ UNCHANGED <<ctor, bf, ncalls, store, everSet, directSet>>

\* without a pipeline Exists reports the element absent and no error
ExistsStart_Silent(h, data) ==
    /\ MayStart
    /\ ncalls' = ncalls + 1
    /\ LET cmds == ExistsQueue(h, data)
       IN  IF Pipeline(h.config.RedisClient) = "nil"
           THEN /\ calls' = calls
                /\ last' = [InitCall EXCEPT !.pc = "ret", !.op = "exists",
                                            !.data = data, !.val = FALSE,
                                            !.err = NoError]
           ELSE /\ calls' = calls (+) One(
                    [InitCall EXCEPT !.pc = "exec", !.op = "exists", !.data = data,
                                     !.cmds = cmds, !.execs = 1,
                                     !.must = data \in added,
                                     !.mustClean = data \in addedClean,
                                     !.after = data \in ctor.readded,
                                     !.aged = Aged])
                /\ last' = InitCall
    /\ UNCHANGED <<ctor, bf, store, everSet, directSet, added, addedClean, prev>>

(***************************************************************************)
(* Exists, lines 101-117, on the handle h: the positions, the pipeline,    *)
(* the queued GetBits; Exec hands the batch to the store.  Without a       *)
(* pipeline Exists returns (false, ErrNilRedisClient).                     *)
(***************************************************************************)
ExistsStart(h, data) ==
    /\ MayStart
    /\ ncalls' = ncalls + 1
    /\ LET cmds == ExistsQueue(h, data)
       IN  IF Pipeline(h.config.RedisClient) = "nil"
           THEN /\ calls' = calls
                /\ last' = [InitCall EXCEPT !.pc = "ret", !.op = "exists",
                                            !.data = data, !.val = FALSE,
                                            !.err = ErrNilRedisClient]
           ELSE /\ calls' = calls (+) One(
                    [InitCall EXCEPT !.pc = "exec", !.op = "exists", !.data = data,
                                     !.cmds = cmds, !.execs = 1,
                                     !.must = data \in added,
                                     !.mustClean = data \in addedClean,
                                     !.after = data \in ctor.readded,
                                     !.aged = Aged])
                /\ last' = InitCall
    /\ UNCHANGED <<ctor, bf, store, everSet, directSet, added, addedClean, prev>>

\* reading a bit renews the key's lifetime
StoreApplyGetBit_Touch(r) ==
    /\ r.pc = "exec" /\ r.op = "exists"
    /\ r.done < Len(r.cmds)
    /\ LET cmd == r.cmds[r.done + 1]
       IN  Step(r, [r EXCEPT
                !.vals = Append(@, StoreGetBit(store, cmd.key, cmd.offset)),
                !.done = @ + 1])
    /\ store' = StoreExpire(store, bf.config.RedisKey, bf.config.TTL)
    /\ UNCHANGED <<ctor, bf, ncalls, everSet, directSet, added, addedClean, prev>>

\* the store applies the next GetBit of r's batch
StoreApplyGetBit(r) ==
    /\ r.pc = "exec" /\ r.op = "exists"
    /\ r.done < Len(r.cmds)
    /\ LET cmd == r.cmds[r.done + 1]
       IN  Step(r, [r EXCEPT
                !.vals = Append(@, StoreGetBit(store, cmd.key, cmd.offset)),
                !.done = @ + 1])
    /\ UNCHANGED <<ctor, bf, ncalls, store, everSet, directSet, added, addedClean, prev>>

\* the batch error is swallowed and the bits read so far decide
ExistsExecError_Swallow(r, e) ==
    /\ r.pc = "exec" /\ r.op = "exists"
    /\ Return(r, [r EXCEPT !.execErr = e, !.val = FALSE, !.err = NoError])
    /\ UNCHANGED <<ctor, bf, ncalls, store, everSet, directSet, added, addedClean, prev>>

\* Exists, lines 117-120: Exec returned an error, after any number of the
\* batch's commands were applied
ExistsExecError(r, e) ==
    /\ r.pc = "exec" /\ r.op = "exists"
    /\ Return(r, [r EXCEPT !.execErr = e, !.val = FALSE, !.err = e])
    /\ UNCHANGED <<ctor, bf, ncalls, store, everSet, directSet, added, addedClean, prev>>

\* true as soon as one command's value is not 0
AllBitsSet_Any(vals) == \E i \in 1..Len(vals) : vals[i] # 0

\* the loop over the commands stops one short
AllBitsSet_SkipLast(vals) == \A i \in 1..(Len(vals) - 1) : vals[i] # 0

\* lines 122-129: false at the first command whose value is 0, else true
AllBitsSet(vals) == \A i \in 1..Len(vals) : vals[i] # 0

\* Exists, lines 117-129: Exec returned nil
ExistsExecOk(r) ==
    /\ r.pc = "exec" /\ r.op = "exists"
    /\ r.done = Len(r.cmds)
    /\ Return(r, [r EXCEPT !.val = AllBitsSet(r.vals), !.err = NoError])
    /\ UNCHANGED <<ctor, bf, ncalls, store, everSet, directSet, added, addedClean, prev>>

(***************************************************************************)
(* SetBit of RedisAdapter, redis.go 22-24: a caller sends one SETBIT       *)
(* through the adapter a handle of the filter was built with, outside any  *)
(* Add, and waits for the store's reply.  A bit of the filter's key that   *)
(* it clears is a bit lost to the elements added.                          *)
(***************************************************************************)
\* the SETBITs sent this way: bit 0 of the filter's key, a position of
\* both elements, cleared or set, and a bit of another key set
DirectWrites ==
    {[key |-> FilterKey, offset |-> 0, value |-> 0],
     [key |-> FilterKey, offset |-> 0, value |-> 1],
     [key |-> "other", offset |-> 0, value |-> 1]}

\* the error of a SetBit that fails
SetBitErrors == {"connection reset"}

\* ra.client.SetBit(ctx, key, offset, value) is sent
AdapterSetBit(key, offset, value) ==
    /\ \E h \in {bf, ctor.bf2} : h.config.RedisClient = "adapter"
    /\ MayStart
    /\ ncalls' = ncalls + 1
    /\ calls' = calls (+) One(
           [InitCall EXCEPT !.pc = "setbit", !.op = "setbit",
                            !.cmds = <<[name |-> "SETBIT", key |-> key,
                                        offset |-> offset, value |-> value]>>])
    /\ last' = InitCall
    /\ UNCHANGED <<ctor, bf, store, everSet, directSet, added, addedClean, prev>>

\* the store applies the SETBIT of the call r
StoreApplyDirectSetBit(r) ==
    /\ Quiet
    /\ r.pc = "setbit"
    /\ LET cmd == r.cmds[1]
           onFilter == cmd.key = bf.config.RedisKey
           cleared == onFilter /\ cmd.value = 0 /\ cmd.offset \in store[cmd.key].bits
           Written == [c \in InFlight |->
                         [c EXCEPT !.clean = FALSE, !.must = FALSE,
                                   !.mustClean = FALSE]]
           others == calls (-) One(r)
       IN  /\ store' = StoreSetBit(store, cmd.key, cmd.offset, cmd.value)
           /\ calls' = (IF cleared THEN MapBag(others, Written) ELSE others)
                           (+) One([r EXCEPT !.pc = "setbitdone", !.done = 1])
           /\ added' = IF cleared THEN {} ELSE added
           /\ addedClean' = IF cleared THEN {} ELSE addedClean
           /\ prev' = IF onFilter THEN NoPrev ELSE prev
           /\ directSet' = IF onFilter /\ cmd.value = 1
                           THEN directSet \cup {cmd.offset} ELSE directSet
    /\ last' = InitCall
    /\ UNCHANGED <<ctor, bf, ncalls, everSet>>

\* the store's reply has come: SetBit returns it
AdapterSetBitOk(r) ==
    /\ r.pc = "setbitdone"
    /\ Return(r, [r EXCEPT !.err = NoError])
    /\ UNCHANGED <<ctor, bf, ncalls, store, everSet, directSet, added,
                   addedClean, prev>>

\* the call fails, before or after the store applied the SETBIT
AdapterSetBitError(r, e) ==
    /\ r.pc \in {"setbit", "setbitdone"}
    /\ Return(r, [r EXCEPT !.err = e])
    /\ UNCHANGED <<ctor, bf, ncalls, store, everSet, directSet, added,
                   addedClean, prev>>

(***************************************************************************)
(* The store's clock.                                                      *)
(***************************************************************************)
Tick ==
    LET dropped == store[FilterKey].ttl = 1
        Ticked == [r \in InFlight |->
                      [r EXCEPT !.clean = FALSE, !.must = FALSE,
                                !.mustClean = FALSE]]
    IN  /\ Quiet
        /\ store' = StoreTick(store)
        /\ calls' = IF dropped THEN MapBag(calls, Ticked) ELSE calls
        /\ last' = InitCall
        /\ added' = IF dropped THEN {} ELSE added
        /\ addedClean' = IF dropped THEN {} ELSE addedClean
        /\ prev' = IF dropped THEN NoPrev ELSE prev
        /\ ctor' = Elapsed
        /\ UNCHANGED <<bf, ncalls, everSet, directSet>>

\* the caller has what the call returned: the record of the return is
\* dropped.  In a run on two handles an Exists in flight when an Add
\* returns is no Exists after the TTL has elapsed with no further Add.
ResultTaken ==
    LET Fresh == [r \in InFlight |-> [r EXCEPT !.aged = FALSE]]
    IN  /\ ~Quiet
        /\ last' = InitCall
        /\ ctor' = Noted
        /\ calls' = IF Noting /\ last.op = "add" THEN MapBag(calls, Fresh)
                     ELSE calls
        /\ UNCHANGED <<bf, store, ncalls, everSet, directSet, added,
                       addedClean, prev>>

\* a step of an Exists call
ExistsStep ==
    \/ \E data \in Elements : ExistsStart(Reader, data)
    \/ \E r \in InFlight : StoreApplyGetBit(r)
    \/ \E r \in InFlight, e \in StoreErrors : ExistsExecError(r, e)
    \/ \E r \in InFlight : ExistsExecOk(r)

Next ==
    \/ \E data \in Elements : AddStart(data)
    \/ \E r \in InFlight : StoreApplySetBit(r)
    \/ \E r \in InFlight, e \in StoreErrors : AddExecError(r, e)
    \/ \E r \in InFlight : AddExecOk(r)
    \/ \E r \in InFlight : StoreApplyExpire(r)
    \/ \E r \in InFlight : AddExpireOk(r)
    \/ \E r \in InFlight, e \in StoreErrors : ExpireError(r, e)
    \/ \E data \in Elements : ExistsStart(Reader, data)
    \/ \E r \in InFlight : StoreApplyGetBit(r)
    \/ \E r \in InFlight, e \in StoreErrors : ExistsExecError(r, e)
    \/ \E r \in InFlight : ExistsExecOk(r)
    \/ \E w \in DirectWrites : AdapterSetBit(w.key, w.offset, w.value)
    \/ \E r \in InFlight : StoreApplyDirectSetBit(r)
    \/ \E r \in InFlight : AdapterSetBitOk(r)
    \/ \E r \in InFlight, e \in SetBitErrors : AdapterSetBitError(r, e)
    \/ ResultTaken
    \/ Tick

Spec == Init /\ [][Next]_vars

(***************************************************************************)
(* A run on two handles built for one filter: Add is called on the first,  *)
(* Exists on the second, and the history is kept.                          *)
(***************************************************************************)
\* the Configs of the first handle: a client that yields a pipeline, the
\* adapter with each TTL, the wrapper with a TTL of zero and above
Firsts ==
    {c \in SharedConfigs : \/ c.RedisClient = "adapter"
                           \/ c.RedisClient = "wrapper" /\ c.TTL >= 0}

\* the Configs of the second handle: the Config of the first, or, for an
\* adapter with a TTL, one with the key, ExpectedInsertions,
\* FalsePositiveRate and HashStrategy of the first on the other type of
\* client and without a TTL
Seconds(cfg) ==
    {cfg} \cup {c \in SharedConfigs : /\ cfg.RedisClient = "adapter"
                                       /\ cfg.TTL > 0
                                       /\ c.RedisClient = "wrapper"
                                       /\ c.TTL = 0}

InitShared ==
    /\ \E cfg \in Firsts : \E cfg2 \in Seconds(cfg) :
          /\ bf = NewBloomFilter(cfg).bf
          /\ ctor = Run("shared", cfg, cfg2)
    /\ store = [k \in Keys |-> EmptyKey]
    /\ calls = EmptyBag
    /\ last = InitCall
    /\ ncalls = 0
    /\ everSet = {}
    /\ directSet = {}
    /\ added = {}
    /\ addedClean = {}
    /\ prev = NoPrev

SpecShared == InitShared /\ [][Next]_vars

(***************************************************************************)
(* Construction and the first use of a handle, for every Config, on the    *)
(* builds of the Go compiler for amd64 and arm64.                          *)
(***************************************************************************)
GoArchs == {"amd64", "arm64"}

\* ExpectedInsertions = 10^18: a tag, read by the tables below only
Quintillion == 2000000000

Insertions == {0, Quintillion} \cup ValidInsertions
Rates == {NegInf, -50, 0, 100, 150, PosInf, NaN} \cup ValidRates
RedisKeys == {"", FilterKey}
AllClients == {"nil", "adapter", "wrapper", "nopipe", "noclient"}
AllStrategies == {"nil", "xxhash", "murmur3", "fnv"}
TTLs == {-1, 0, TTLTicks}

AllConfigs ==
    {[RedisKey |-> key, RedisClient |-> cl,
      ExpectedInsertions |-> n, FalsePositiveRate |-> p,
      TTL |-> ttl, HashStrategy |-> hs] :
        key \in RedisKeys, cl \in AllClients, n \in Insertions, p \in Rates,
        ttl \in TTLs, hs \in AllStrategies}

\* uint64(f) for a NaN f, line 71: the language leaves the value to the
\* implementation; 0x8000000000000000 on amd64, 0 on arm64
Uint64OfNaN(goarch) ==
    IF goarch = "arm64" THEN <<0, 0, 0, 0>> ELSE <<0, 0, 0, 32768>>

\* lines 74-79 for that bit size: uint(math.Ceil(float64(bitSize) /
\* float64(n) * ln2)), raised to 1 when it is 0
HashCountOfNaN(goarch, n) ==
    IF goarch = "arm64" THEN U64FromSmall(1)
    ELSE CASE n = 1 -> <<48128, 59623, 3067, 22713>>
           [] n = 3 -> <<59648, 41719, 1022, 7571>>
           [] n = 94 -> <<62560, 61289, 41166, 241>>
           [] n = 1000 -> <<38256, 15460, 46730, 22>>
           [] n = Quintillion -> U64FromSmall(7)

\* calculateOptimalParameters on a build, the results as uint64: for
\* n = 10^18 the float64 arithmetic of lines 69-74 gives
\* 9585058377367441408, 1442695040888963584 and 20918457294166440 bits
\* (math.Log(0.01) is -4.605170185988092 by the algorithm of Go's library)
calculateOptimalParametersOn(goarch, n, p) ==
    IF p = NaN
    THEN [bitSize |-> Uint64OfNaN(goarch), hashCount |-> HashCountOfNaN(goarch, n)]
    ELSE IF n = Quintillion
    THEN CASE p = 1 -> [bitSize |-> <<20480, 30302, 63439, 34052>>,
                        hashCount |-> U64FromSmall(7)]
           [] p = 50 -> [bitSize |-> <<33280, 63335, 31614, 5125>>,
                         hashCount |-> U64FromSmall(1)]
           [] p = 99 -> [bitSize |-> <<39336, 57412, 20793, 74>>,
                         hashCount |-> U64FromSmall(1)]
    ELSE [bitSize |-> U64FromSmall(OptimalParameters(n, p).bitSize),
          hashCount |-> U64FromSmall(OptimalParameters(n, p).hashCount)]

\* a handle NewBloomFilter built always holds a strategy (lines 58-60)
IsNil(h) == h.hashStrategy = "nil"

\* what NewBloomFilter(cfg) returns on a build, the parameters as uint64
NewBloomFilterOn(goarch, cfg) ==
    IF Validate(cfg) # NoError
    THEN [handle |-> "nil", err |-> Validate(cfg),
          bitSize |-> <<0, 0, 0, 0>>, hashCount |-> <<0, 0, 0, 0>>,
          hashStrategy |-> "nil"]
    ELSE LET params == calculateOptimalParametersOn(goarch,
                           cfg.ExpectedInsertions, cfg.FalsePositiveRate)
         IN  [handle |-> "bloomFilter", err |-> NoError,
              bitSize |-> params.bitSize,
              hashCount |-> params.hashCount,
              hashStrategy |-> IF cfg.HashStrategy = "nil" THEN NewXXHashStrategy
                               ELSE cfg.HashStrategy]

\* make([]uint64, hashCount), line 135, aborts beyond 2^48 bytes
TooLong(hashCount) == hashCount[4] > 0 \/ hashCount[3] >= 8192

PanicMakeSlice == "panic: runtime error: makeslice: len out of range"
PanicDivide == "panic: runtime error: integer divide by zero"
PanicNilDeref == "panic: runtime error: invalid memory address or nil pointer dereference"

\* how far Add (lines 72-75) and Exists (lines 102-105) get before the
\* first store command: getHashPositions, then Pipeline()
FirstUse(r, cfg) ==
    IF TooLong(r.hashCount) THEN PanicMakeSlice
    ELSE IF r.bitSize = <<0, 0, 0, 0>> THEN PanicDivide
    ELSE IF Pipeline(cfg.RedisClient) = "panic" THEN PanicNilDeref
    ELSE "returns"

\* h2 is left as the strategy returned it
getHashPositions64_NoOdd(r, data) ==
    LET h1 == Hash(r.hashStrategy, data, 0)
        h2 == Hash(r.hashStrategy, data, 1)
    IN  [i \in 1..r.hashCount[1] |->
            U64ModWide(U64Add(h1, U64MulSmall(i - 1, h2)), r.bitSize)]

\* getHashPositions with the handle's parameters as uint64
getHashPositions64(r, data) ==
    LET h1 == Hash(r.hashStrategy, data, 0)
        g2 == Hash(r.hashStrategy, data, 1)
        h2 == IF g2[1] % 2 = 0 THEN U64Add(g2, U64FromSmall(1)) ELSE g2
    IN  [i \in 1..r.hashCount[1] |->
            U64ModWide(U64Add(h1, U64MulSmall(i - 1, h2)), r.bitSize)]

\* the offsets Add (line 81) and Exists (line 113) pass on: int64(pos)
Int64Offsets(positions) == [i \in 1..Len(positions) |-> Int64(positions[i])]

NoRes == [handle |-> "nil", err |-> NoError, bitSize |-> <<0, 0, 0, 0>>,
          hashCount |-> <<0, 0, 0, 0>>, hashStrategy |-> "nil"]
NoParams == [bitSize |-> 0, hashCount |-> 0]

InitNew ==
    /\ \E goarch \in GoArchs, cfg \in AllConfigs :
          ctor = [pc |-> "config", goarch |-> goarch, cfg |-> cfg, res |-> NoRes,
                  again |-> NoParams,
                  op |-> "none", data |-> <<>>, use |-> "none",
                  positions |-> <<>>, offsets |-> <<>>]
    /\ bf = NilHandle
    /\ store = [k \in Keys |-> EmptyKey]
    /\ calls = EmptyBag
    /\ last = InitCall
    /\ ncalls = 0
    /\ everSet = {}
    /\ directSet = {}
    /\ added = {}
    /\ addedClean = {}
    /\ prev = NoPrev

filter == <<bf, store, calls, last, ncalls, everSet, directSet, added, addedClean, prev>>

\* the handle is usable and its parameters are in the range of the tables
Usable == /\ ctor.res.handle = "bloomFilter"
          /\ ctor.cfg.FalsePositiveRate # NaN
          /\ ctor.cfg.ExpectedInsertions # Quintillion

\* NewBloomFilter(cfg)
Construct ==
    /\ ctor.pc = "config"
    /\ ctor' = [ctor EXCEPT !.pc = "built",
                            !.res = NewBloomFilterOn(ctor.goarch, ctor.cfg)]
    /\ UNCHANGED filter

\* calculateOptimalParameters once more, on the input of line 55
Recalculate ==
    /\ ctor.pc = "built" /\ Usable
    /\ ctor' = [ctor EXCEPT !.pc = "again",
                            !.again = calculateOptimalParameters(
                                          ctor.cfg.ExpectedInsertions,
                                          ctor.cfg.FalsePositiveRate)]
    /\ UNCHANGED filter

\* the first Add or Exists on the handle, up to its first store command
FirstCall(op, data) ==
    /\ ctor.pc = "built"
    /\ ctor.res.handle = "bloomFilter"
    /\ LET use == FirstUse(ctor.res, ctor.cfg)
           positions == IF use \in {PanicMakeSlice, PanicDivide} THEN <<>>
                        ELSE getHashPositions64(ctor.res, data)
       IN  ctor' = [ctor EXCEPT !.pc = "used", !.op = op, !.data = data,
                                !.use = use, !.positions = positions,
                                !.offsets =
                                    IF use = "returns"
                                       /\ Pipeline(ctor.cfg.RedisClient) = "pipe"
                                    THEN Int64Offsets(positions) ELSE <<>>]
    /\ UNCHANGED filter

NextNew ==
    \/ Construct
    \/ Recalculate
    \/ \E op \in {"add", "exists"}, data \in ProbeElements : FirstCall(op, data)

SpecNew == InitNew /\ [][NextNew]_vars

(***************************************************************************)
(* Properties.  They are stated on last, the call that has just returned:  *)
(* every return of a call passes through such a state.                     *)
(***************************************************************************)
Returned(op) == last.pc = "ret" /\ last.op = op

\* the batch of the returned call was executed and returned nil
BatchOk == last.pc = "ret" /\ last.execs = 1 /\ last.execErr = NoError

Offsets(cmds) == {cmds[i].offset : i \in 1..Len(cmds)}

OffsetSeq(cmds) == [i \in 1..Len(cmds) |-> cmds[i].offset]

\* C1, as stated: an Exists(e) called after Add(e) returned nil, with no
\* key drop between that return and the Exists, returns true when it
\* returns without error.
C1_Original ==
    Returned("exists") /\ last.err = NoError /\ last.must => last.val = TRUE

\* C1, amended: an Exists(e) called after Add(e) returned nil returns true
\* when it returns without error, provided the store dropped no bit since
\* the batch of that Add began.
C1_NoFalseNegatives ==
    Returned("exists") /\ last.err = NoError /\ last.mustClean => last.val = TRUE

\* Exists(e) is true after Add(e) and a further Add of another element
C1_Witness ==
    /\ Returned("exists") /\ last.err = NoError
    /\ last.mustClean /\ last.val = TRUE
    /\ added = Elements
    /\ ncalls = MaxCalls

\* C2: when its batch succeeds, Exists returns (true, nil) iff each of the
\* k bits read at the element's positions is 1, and (false, nil) otherwise.
C2_ExistsIffAllBits ==
    Returned("exists") /\ BatchOk
        => /\ last.err = NoError
           /\ Len(last.vals) = bf.hashCount
           /\ OffsetSeq(last.cmds) = Positions(bf, last.data)
           /\ last.val = (\A i \in 1..bf.hashCount : last.vals[i] = 1)

\* some of the bits read are 1, one is 0, and the answer is false
C2_Witness ==
    /\ Returned("exists") /\ BatchOk
    /\ last.val = FALSE
    /\ \E i, j \in 1..Len(last.vals) : last.vals[i] = 1 /\ last.vals[j] = 0

\* C3, as stated: Exists returns true only if every position of the
\* element was set by the batch of some Add; on a key no Add has written,
\* a successful Exists returns (false, nil).
C3_Original ==
    Returned("exists")
        => /\ last.val = TRUE
               => /\ last.err = NoError
                  /\ \A i \in 1..bf.hashCount :
                         Positions(bf, last.data)[i] \in everSet
           /\ BatchOk /\ everSet = {} => last.val = FALSE /\ last.err = NoError

\* C3, amended: Exists returns true only if every position of the element
\* was set by the batch of some Add or by a SetBit sent to the key through
\* the adapter directly; on a key neither has written, a successful Exists
\* returns (false, nil).
C3_TrueOnlyIfSet ==
    Returned("exists")
        => /\ last.val = TRUE
               => /\ last.err = NoError
                  /\ \A i \in 1..bf.hashCount :
                         Positions(bf, last.data)[i]
                             \in everSet \cup directSet
           /\ BatchOk /\ everSet = {} /\ directSet = {}
                  => last.val = FALSE /\ last.err = NoError

\* Exists(e) has returned true with one of e's bits set by an Add still in
\* flight and the other by a SetBit sent through the adapter
C3_Witness ==
    /\ Returned("exists") /\ last.val = TRUE
    /\ \E off \in Offsets(last.cmds) : off \in everSet \ directSet
    /\ \E off \in Offsets(last.cmds) : off \in directSet \ everSet

\* C4: a successful Add(e) that follows a successful Add(e), with no bit
\* written for another element or dropped in between, leaves the bit
\* array as the first one left it.
C4_AddIdempotent ==
    prev.valid => store[bf.config.RedisKey].bits = prev.bits

\* the second Add(e) has returned, on a bit array that holds more than e
C4_Witness ==
    /\ prev.valid /\ prev.n = 2
    /\ store[bf.config.RedisKey].bits # Offsets(AddCmds(bf, prev.data))
    /\ Returned("add") /\ last.data = prev.data /\ last.err = NoError

\* C5: when the batch of an Exists fails, Exists returns (false, err) with
\* err the batch's error.
C5_ExistsBatchError ==
    Returned("exists") /\ last.execErr # NoError
        => last.err = last.execErr /\ last.val = FALSE

\* every bit was read as 1, and the batch failed
C5_Witness ==
    /\ Returned("exists") /\ last.execErr \in StoreErrors
    /\ last.done = bf.hashCount
    /\ \A i \in 1..Len(last.vals) : last.vals[i] = 1

\* C6: the step in which Add returns after a failed batch returns the
\* batch's error, leaves the store as it is and has issued no Expire.
C6_AddBatchError ==
    [][last'.pc = "ret" /\ last'.op = "add" /\ last'.execErr # NoError
          => /\ last'.err = last'.execErr
             /\ last'.err \in StoreErrors
             /\ last'.expires = 0
             /\ store' = store]_vars

\* a batch that failed after some of its bits were set, on a filter with TTL
C6_Witness ==
    /\ Returned("add") /\ last.execErr \in StoreErrors
    /\ last.done > 0 /\ last.done < Len(last.cmds)
    /\ bf.config.TTL > 0 /\ bf.config.RedisClient = "adapter"
    /\ store[bf.config.RedisKey].bits # {}
    /\ store[bf.config.RedisKey].ttl = 0

\* a call in flight or returned
Calls == InFlight \cup {last}

\* C7, as stated: every call executes exactly one batch carrying the k bit
\* operations of its element.
C7_Original ==
    \A r \in Calls :
        r.op \in {"add", "exists"} => r.execs = 1 /\ Len(r.cmds) = bf.hashCount

\* C7, amended: a call whose store handle yields a pipeline has, when it
\* returns, executed exactly one batch, carrying the k bit operations of
\* its element, the store applied no bit operation beyond them and a
\* failed batch was not retried; a call whose handle yields no pipeline
\* executes no batch and sends no bit operation.
C7_OneBatch ==
    last.pc = "ret" /\ last.op \in {"add", "exists"}
        => IF Pipeline(bf.config.RedisClient) = "nil"
           THEN last.execs = 0 /\ last.cmds = <<>> /\ last.done = 0
           ELSE /\ last.execs = 1
                /\ Len(last.cmds) = bf.hashCount
                /\ \A i \in 1..Len(last.cmds) :
                       /\ last.cmds[i].key = bf.config.RedisKey
                       /\ last.cmds[i].name =
                              IF last.op = "add" THEN "SETBIT" ELSE "GETBIT"
                /\ last.done <= Len(last.cmds)
                /\ OffsetSeq(last.cmds) = Positions(bf, last.data)

\* an Add whose batch failed has returned
C7_Witness ==
    /\ Returned("add") /\ last.execErr \in StoreErrors
    /\ last.execs = 1 /\ Len(last.cmds) = bf.hashCount
    /\ last.done = Len(last.cmds)

\* C8: when the Expire that follows a successful batch fails, Add returns
\* an error, and the bits of its batch stay set.
C8_ExpireFailureReported ==
    [][last'.pc = "ret" /\ last'.op = "add" /\ last'.expireErr # NoError
          => last'.err # NoError /\ store' = store]_vars

\* C9: on a filter with TTL > 0, an Add whose batch succeeded has issued
\* one Expire, whatever RedisClient the filter was built with.
C9_ExpireIssued ==
    Returned("add") /\ BatchOk /\ bf.config.TTL > 0 => last.expires = 1

\* C10: on a filter configured with a TTL, an Exists(e) called after
\* Add(e) returned nil, no bit dropped or cleared since the batch of that
\* Add began, returns true when it returns without error; once the TTL has
\* elapsed since the last Add returned nil, with no Add in flight, no
\* failed batch and no write to the key but by Adds, the store holds no
\* bit of the key; and an Exists(e) called then returns (false, nil) when
\* its batch succeeds and no Add returned and nothing else wrote to the
\* key in the meantime.
C10_ExpiryScenario ==
    bf.config.TTL > 0 =>
        /\ Returned("exists") /\ last.err = NoError /\ last.mustClean
              => last.val = TRUE
        /\ Aged => store[bf.config.RedisKey].bits = {}
        /\ Returned("exists") /\ BatchOk /\ last.aged
           /\ ~ctor.failed /\ directSet = {} /\ NoWriter
              => last.val = FALSE /\ last.err = NoError

\* C11, as stated, even granting that no bit is dropped or cleared after
\* the Add returned: the two handles address the same key and the same
\* offsets for every element, and an Exists(e) on the second handle,
\* called after Add(e) on the first returned nil, returns true when it
\* returns without error.
C11_Original ==
    /\ \A e \in Elements :
          /\ OffsetSeq(AddQueue(bf, e)) = OffsetSeq(ExistsQueue(Reader, e))
          /\ \A i \in 1..Len(AddQueue(bf, e)) :
                AddQueue(bf, e)[i].key = ExistsQueue(Reader, e)[i].key
    /\ Returned("exists") /\ last.err = NoError /\ last.must
          => last.val = TRUE

\* C11, amended: the same, provided the store dropped no bit of the key
\* (its TTL ending) and no SetBit sent to the key directly cleared one
\* since the batch of that Add began.
C11_SharedFilter ==
    /\ \A e \in Elements :
          /\ OffsetSeq(AddQueue(bf, e)) = OffsetSeq(ExistsQueue(Reader, e))
          /\ \A i \in 1..Len(AddQueue(bf, e)) :
                AddQueue(bf, e)[i].key = ExistsQueue(Reader, e)[i].key
    /\ Returned("exists") /\ last.err = NoError /\ last.mustClean
          => last.val = TRUE

\* added through an adapter handle with a TTL, the key's lifetime running,
\* and found through a handle on another client type without a TTL
C11_Witness ==
    /\ Noting
    /\ bf.config.RedisClient = "adapter" /\ bf.config.TTL > 0
    /\ Reader.config.RedisClient = "wrapper" /\ Reader.config.TTL <= 0
    /\ Returned("exists") /\ last.err = NoError
    /\ last.mustClean /\ last.val = TRUE
    /\ store[bf.config.RedisKey].ttl > 0

\* the step leaves every bit that is set as it is
NoBitLost == \A k \in Keys : store[k].bits \subseteq store'[k].bits

\* the step is the store applying a SetBit sent through the adapter
\* directly, outside any Add
DirectSetBit == \E r \in InFlight : StoreApplyDirectSetBit(r)

\* C12, as stated, even granting that no bit is dropped or cleared after
\* the Add returned: under every interleaving no step of an Add or an
\* Exists takes a bit away, and an Exists(e) called after an Add(e)
\* returned nil returns true when it returns without error, other Adds in
\* flight or not.
C12_Original ==
    [][/\ NoBitLost \/ DirectSetBit \/ Tick
       /\ last'.pc = "ret" /\ last'.op = "exists" /\ last'.err = NoError
          /\ last'.must => last'.val = TRUE]_vars

\* C12, amended: under every interleaving no step of an Add or an Exists
\* takes a bit away, and an Exists(e) called after an Add(e) returned nil
\* returns true when it returns without error, other Adds in flight or
\* not, provided no bit was dropped or cleared since the batch of that Add
\* began.
C12_NoLostBits ==
    [][/\ NoBitLost \/ DirectSetBit \/ Tick
       /\ last'.pc = "ret" /\ last'.op = "exists" /\ last'.err = NoError
          /\ last'.mustClean => last'.val = TRUE]_vars

\* Exists(e) returns true while the Add of another element has applied
\* some of its SetBits and not yet all
C12_Witness ==
    /\ Returned("exists") /\ last.err = NoError
    /\ last.mustClean /\ last.val = TRUE
    /\ \E r \in InFlight : /\ r.op = "add" /\ r.pc = "exec"
                           /\ r.data # last.data
                           /\ r.done > 0 /\ r.done < Len(r.cmds)

\* NewBloomFilter has returned
Built == ctor.pc \in {"built", "again", "used"}

\* the rate, in hundredths, lies strictly between 0 and 1
InOpenInterval(p) == p # NaN /\ p > 0 /\ p < 100

\* C13: with a valid ExpectedInsertions, NewBloomFilter returns
\* ErrInvalidFalsePositiveRate for every FalsePositiveRate that does not
\* lie strictly between 0 and 1.
C13_RateRejected ==
    Built /\ ctor.cfg.ExpectedInsertions # 0
          /\ ~InOpenInterval(ctor.cfg.FalsePositiveRate)
        => ctor.res.err = ErrInvalidFalsePositiveRate

\* C14: NewBloomFilter rejects ExpectedInsertions = 0 with
\* ErrInvalidExpectedInsertions and, the fields checked before being valid,
\* an empty RedisKey with ErrEmptyRedisKey and a nil RedisClient with
\* ErrNilRedisClient; no handle comes with them and the three errors are
\* different values.
C14_FieldErrors ==
    /\ Cardinality({ErrInvalidExpectedInsertions, ErrEmptyRedisKey,
                    ErrNilRedisClient, NoError}) = 4
    /\ Built /\ ctor.cfg.ExpectedInsertions = 0
            => /\ ctor.res.err = ErrInvalidExpectedInsertions
               /\ ctor.res.handle = "nil"
    /\ Built /\ ctor.cfg.ExpectedInsertions # 0
             /\ InOpenInterval(ctor.cfg.FalsePositiveRate)
             /\ ctor.cfg.RedisKey = ""
            => /\ ctor.res.err = ErrEmptyRedisKey
               /\ ctor.res.handle = "nil"
    /\ Built /\ ctor.cfg.ExpectedInsertions # 0
             /\ InOpenInterval(ctor.cfg.FalsePositiveRate)
             /\ ctor.cfg.RedisKey # ""
             /\ ctor.cfg.RedisClient = "nil"
            => /\ ctor.res.err = ErrNilRedisClient
               /\ ctor.res.handle = "nil"

\* an empty key, everything else valid
C14_Witness ==
    /\ ctor.pc = "built"
    /\ ctor.cfg.ExpectedInsertions = 1000 /\ ctor.cfg.FalsePositiveRate = 1
    /\ ctor.cfg.RedisKey = "" /\ ctor.cfg.RedisClient = "adapter"
    /\ ctor.res.err = ErrEmptyRedisKey

\* the Config fields that fail their validation, by their place in the
\* order ExpectedInsertions, FalsePositiveRate, RedisKey, RedisClient
InvalidFields(cfg) ==
    (IF cfg.ExpectedInsertions = 0 THEN {1} ELSE {})
        \cup (IF ~InOpenInterval(cfg.FalsePositiveRate) THEN {2} ELSE {})
        \cup (IF cfg.RedisKey = "" THEN {3} ELSE {})
        \cup (IF cfg.RedisClient = "nil" THEN {4} ELSE {})

\* the error of the validation in place i of the order
FieldError(i) ==
    CASE i = 1 -> ErrInvalidExpectedInsertions
      [] i = 2 -> ErrInvalidFalsePositiveRate
      [] i = 3 -> ErrEmptyRedisKey
      [] i = 4 -> ErrNilRedisClient

\* C15: when several fields are invalid at once, NewBloomFilter returns
\* the error of the first of them in the order ExpectedInsertions,
\* FalsePositiveRate, RedisKey, RedisClient.
C15_ValidationOrder ==
    Built /\ Cardinality(InvalidFields(ctor.cfg)) >= 2
        => ctor.res.err =
               FieldError(CHOOSE i \in InvalidFields(ctor.cfg) :
                             \A j \in InvalidFields(ctor.cfg) : i <= j)

\* the four validations of the contract pass
ValidConfig(cfg) ==
    /\ cfg.ExpectedInsertions > 0
    /\ InOpenInterval(cfg.FalsePositiveRate)
    /\ cfg.RedisKey # ""
    /\ cfg.RedisClient # "nil"

\* C16: NewBloomFilter returns a handle with a nil error exactly when the
\* four validations pass, and no handle with an error otherwise.
C16_HandleIffValid ==
    Built =>
        IF ValidConfig(ctor.cfg)
        THEN ctor.res.handle = "bloomFilter" /\ ctor.res.err = NoError
        ELSE ctor.res.handle = "nil" /\ ctor.res.err # NoError

\* C17: for every Config and every element, the first Add or Exists on a
\* handle NewBloomFilter returned comes back to its caller: no call panics.
C17_NoPanic == ctor.pc = "used" => ctor.use = "returns"

\* C18: with HashStrategy nil the handle hashes with XXHash and derives,
\* for every element, the positions of a handle built from the same Config
\* with HashStrategy set to NewXXHashStrategy().
C18_DefaultIsXXHash ==
    Built /\ Usable /\ ctor.cfg.HashStrategy = "nil"
        => LET h == NewBloomFilter(ctor.cfg).bf
               hx == NewBloomFilter(
                         [ctor.cfg EXCEPT !.HashStrategy = NewXXHashStrategy]).bf
           IN  \A e \in Elements :
                  /\ getHashPositions(h, e) = getHashPositions(hx, e)
                  /\ \A i \in {0, 1} :
                        Hash(h.hashStrategy, e, i) = XXHashStrategyHash(e, i)

\* a handle built without a strategy, with several positions per element
C18_Witness ==
    /\ ctor.pc = "built" /\ Usable
    /\ ctor.cfg.HashStrategy = "nil"
    /\ ctor.cfg.ExpectedInsertions = 1000 /\ ctor.cfg.FalsePositiveRate = 1
    /\ ctor.res.hashStrategy = NewXXHashStrategy

C20_Scenario ==
    Built /\ ctor.res.handle = "bloomFilter"
          /\ ctor.cfg.ExpectedInsertions = 1000 /\ ctor.cfg.FalsePositiveRate = 1
        => /\ ctor.res.bitSize = U64FromSmall(9586)
           /\ ctor.res.hashCount = U64FromSmall(7)

\* the handle of the scenario
C20_Witness ==
    /\ ctor.pc = "built" /\ ctor.res.handle = "bloomFilter"
    /\ ctor.cfg.ExpectedInsertions = 1000 /\ ctor.cfg.FalsePositiveRate = 1
    /\ ctor.res.bitSize = U64FromSmall(9586)

\* C21: for every element and every handle, getHashPositions returns
\* exactly hashCount values, each in [0, bitSize), and a second call with
\* the same element returns the same sequence.
C21_PositionsInRange ==
    ctor.pc = "used"
        => /\ ctor.use \notin {PanicMakeSlice, PanicDivide}
           /\ U64FromSmall(Len(ctor.positions)) = ctor.res.hashCount
           /\ \A i \in 1..Len(ctor.positions) :
                 U64Less(ctor.positions[i], ctor.res.bitSize)
           /\ getHashPositions64(ctor.res, ctor.data) = ctor.positions

RECURSIVE U64Times(_, _)
\* i * a mod 2^64, by repeated addition
U64Times(i, a) == IF i = 0 THEN <<0, 0, 0, 0>> ELSE U64Add(U64Times(i - 1, a), a)

\* C23: whenever getHashPositions returns, position[i] is
\* ((h1 + i*h2) mod 2^64) mod bitSize for i = 0..hashCount-1 in that order,
\* with h1 = Hash(e, 0) and h2 = Hash(e, 1) plus 1 when that is even.
C23_DoubleHashing ==
    ctor.pc = "used" /\ ctor.use \notin {PanicMakeSlice, PanicDivide}
        => LET h1 == Hash(ctor.res.hashStrategy, ctor.data, 0)
               g2 == Hash(ctor.res.hashStrategy, ctor.data, 1)
               h2 == IF g2[1] % 2 = 0 THEN U64Add(g2, <<1, 0, 0, 0>>) ELSE g2
           IN  /\ h2[1] % 2 = 1
               /\ U64FromSmall(Len(ctor.positions)) = ctor.res.hashCount
               /\ \A i \in 1..Len(ctor.positions) :
                     ctor.positions[i] =
                         U64ModWide(U64Add(h1, U64Times(i - 1, h2)), ctor.res.bitSize)
               /\ Usable => \A i \in 1..Len(ctor.positions) :
                     ctor.positions[i] = U64FromSmall(
                         getHashPositions(NewBloomFilter(ctor.cfg).bf, ctor.data)[i])

\* seven positions of "a" under XXHash in 9586 bits: Hash(e, 1) is even,
\* and h1 + i*h2 passes 2^64
C23_Witness ==
    /\ ctor.pc = "used" /\ ctor.use = "returns"
    /\ ctor.res.hashStrategy = "xxhash" /\ ctor.data = <<97>>
    /\ Hash("xxhash", <<97>>, 1)[1] % 2 = 0
    /\ Len(ctor.positions) = 7
    /\ ctor.positions[1] = U64FromSmall(8988)
    /\ ctor.positions[2] = U64FromSmall(4699)
    /\ ctor.positions[3] = U64FromSmall(410)

\* C24: every offset that Add and Exists pass to SetBit/GetBit is the
\* position itself: not negative and smaller than the handle's bitSize.
C24_OffsetsInRange ==
    ctor.pc = "used" /\ ctor.use = "returns"
        => \A i \in 1..Len(ctor.offsets) :
              /\ ~ctor.offsets[i].neg
              /\ ctor.offsets[i].abs = ctor.positions[i]
              /\ U64Less(ctor.offsets[i].abs, ctor.res.bitSize)

\* C22: after any sequence of Add and Exists calls, successful or failed,
\* the handle's bitSize, hashCount, hashStrategy, key and TTL are those
\* NewBloomFilter fixed for its Config.
C22_HandleImmutable ==
    ctor.pc = "none" => bf = NewBloomFilter(ctor.cfg).bf

\* a TTL handle after a successful Add and a call that has just failed
C22_Witness ==
    /\ ctor.pc = "none"
    /\ ncalls = MaxCalls
    /\ last.pc = "ret" /\ last.err \in StoreErrors
    /\ added # {}
    /\ bf.config.TTL > 0
    /\ bf = NewBloomFilter(ctor.cfg).bf

\* a call that has returned and whose batch did not fail has returned no
\* error, on a handle whose client yields a pipeline
LaterCallsSucceed ==
    /\ Returned("add") /\ last.execErr = NoError
       /\ Pipeline(ctor.cfg.RedisClient) = "pipe"
          => last.err = NoError
    /\ Returned("exists") /\ last.execErr = NoError
       /\ Pipeline(ctor.cfg2.RedisClient) = "pipe"
          => last.err = NoError

\* C26, as stated, even granting that no bit is dropped or cleared after
\* the second Add returned: once the batch of an Add or an Exists has
\* failed, the handle is as NewBloomFilter built it, a call whose own
\* batch does not fail returns no error, and an Exists(e) called after an
\* Add(e) returned nil that began after an Add(e) had failed, with part of
\* its bits set or not, returns true when it returns without error.
C26_Original ==
    /\ ctor.failed => bf = NewBloomFilter(ctor.cfg).bf /\ LaterCallsSucceed
    /\ Returned("exists") /\ last.err = NoError /\ last.after /\ last.must
          => last.val = TRUE

\* C26, amended: the same, the Exists returning true provided the store
\* dropped no bit of the key (its TTL ending) and no SetBit sent to the
\* key directly cleared one since the batch of the second Add began.
C26_FailureNotRemembered ==
    /\ ctor.failed => bf = NewBloomFilter(ctor.cfg).bf /\ LaterCallsSucceed
    /\ Returned("exists") /\ last.err = NoError /\ last.after
       /\ last.mustClean
          => last.val = TRUE

\* an Add(e) failed after the store had set one of e's two bits; an Add(e)
\* on the same handle, whose Add issues an Expire, returned nil and the
\* Exists(e) on that handle returned true
C26_Witness ==
    /\ Noting /\ ctor.cfg2 = ctor.cfg
    /\ bf.config.TTL > 0 /\ bf.config.RedisClient = "adapter"
    /\ ctor.failed /\ ctor.partial /\ last.data \in ctor.failedAdds
    /\ ncalls = 3
    /\ Returned("exists") /\ last.err = NoError
    /\ last.after /\ last.mustClean /\ last.val = TRUE

\* no call has issued an Expire, no key has a time-to-live and a tick of
\* the clock leaves the store as it is
NoExpiry ==
    /\ \A r \in Calls : r.expires = 0 /\ r.pc \notin {"expire", "expired"}
    /\ \A k \in Keys : store[k].ttl = 0
    /\ StoreTick(store) = store

\* C30, as stated, even granting that no bit is cleared after the Add
\* returned: with a TTL of zero or less no Add issues an Expire, the key
\* has no time-to-live, and an Exists(e) called after Add(e) returned nil
\* returns true when it returns without error, however long the store's
\* clock has run.
C30_Original ==
    bf.config.TTL <= 0 =>
        /\ NoExpiry
        /\ Returned("exists") /\ last.err = NoError /\ last.must
              => last.val = TRUE

\* C30, amended: the same, provided no SetBit sent to the key directly
\* cleared a bit since the batch of that Add began.
C30_NoExpiryWithoutTTL ==
    bf.config.TTL <= 0 =>
        /\ NoExpiry
        /\ Returned("exists") /\ last.err = NoError /\ last.mustClean
              => last.val = TRUE

\* a negative TTL on an adapter: both elements were added, the clock has
\* run on by TTLTicks since, and Exists returns true
C30_Witness ==
    /\ Noting
    /\ bf.config.TTL < 0 /\ bf.config.RedisClient = "adapter"
    /\ added = Elements
    /\ ctor.age = TTLTicks
    /\ Returned("exists") /\ last.err = NoError
    /\ last.mustClean /\ last.val = TRUE

\* C25: the SetBits of one Add are applied one at a time: a step of the
\* store sets at most one bit, and the return of an Exists leaves every
\* Add in flight as it is, free to return nil later; so an Exists(e) can
\* read some of e's bits set and some not while Add(e) is in flight.
C25_PartialAddVisible ==
    [][/\ \A k \in Keys : Cardinality(store'[k].bits \ store[k].bits) <= 1
       /\ last'.pc = "ret" /\ last'.op = "exists"
            => \A r \in InFlight :
                  r.op = "add" => CopiesIn(r, calls') = CopiesIn(r, calls)]_vars

\* Exists(e) has returned (false, nil) after reading one of e's bits as 1
\* and one as 0, while the Add(e) in flight, the only Add so far, has all
\* its SetBits applied and nothing left to do but return
C25_Witness ==
    /\ Returned("exists") /\ last.err = NoError /\ last.val = FALSE
    /\ \E i, j \in 1..Len(last.vals) : last.vals[i] = 1 /\ last.vals[j] = 0
    /\ added = {} /\ ncalls = 2
    /\ \E r \in InFlight : /\ r.op = "add" /\ r.pc = "exec"
                           /\ r.data = last.data
                           /\ r.done = Len(r.cmds)

\* C27: on a filter with TTL > 0, when an Add returns nil the key it wrote
\* has the full TTL as its remaining lifetime.
C27_SlidingExpiry ==
    Returned("add") /\ last.err = NoError /\ bf.config.TTL > 0
        /\ store[bf.config.RedisKey].bits # {}
            => store[bf.config.RedisKey].ttl = bf.config.TTL

\* C28: every command of an Exists is a GetBit on the handle's key, and a
\* step that changes the bits or the lifetime of any key is no step of an
\* Exists, whether the Exists returns a value or an error.
C28_ExistsReadOnly ==
    [][/\ store' # store => ~ExistsStep
       /\ \A r \in BagToSet(calls') \cup {last'} :
             r.op = "exists"
                 => \A i \in 1..Len(r.cmds) :
                       /\ r.cmds[i].name = "GETBIT"
                       /\ r.cmds[i].key = bf.config.RedisKey]_vars

\* an Exists has failed after reading a bit as 1, on a key that holds
\* bits and whose lifetime is running
C28_Witness ==
    /\ Returned("exists") /\ last.err \in StoreErrors
    /\ last.done > 0 /\ last.vals[1] = 1
    /\ store[bf.config.RedisKey].bits # {}
    /\ store[bf.config.RedisKey].ttl > 0

\* C29: every command of an Add writes the value 1 under the handle's
\* key; a step of the filter changes no other key and sets no bit but at
\* a position of the element of an Add in flight; and a step that changes
\* a bit from 1 to 0 is a tick of the store's clock or a SetBit sent
\* through the adapter directly, not a step of the filter.
C29_BitsOnlyGrow ==
    [][/\ \/ /\ \A k \in Keys \ {bf.config.RedisKey} : store'[k] = store[k]
             /\ \A off \in store'[bf.config.RedisKey].bits
                              \ store[bf.config.RedisKey].bits :
                   \E r \in InFlight :
                      /\ r.op = "add"
                      /\ \E i \in 1..bf.hashCount :
                            Positions(bf, r.data)[i] = off
             /\ NoBitLost \/ Tick
          \/ DirectSetBit
       /\ \A r \in BagToSet(calls') :
             r.op = "add"
                 => \A i \in 1..Len(r.cmds) :
                       /\ r.cmds[i].name = "SETBIT"
                       /\ r.cmds[i].key = bf.config.RedisKey
                       /\ r.cmds[i].value = 1]_vars

\* both elements were added: the key holds their positions and no other
\* bit, and the second key of the store is untouched
C29_Witness ==
    /\ Returned("add") /\ last.err = NoError
    /\ added = Elements
    /\ store[bf.config.RedisKey].bits
           = UNION {Offsets(AddCmds(bf, e)) : e \in Elements}
    /\ store[bf.config.RedisKey].bits # Offsets(last.cmds)
    /\ store["other"] = EmptyKey

\* the value of a uint64 below 2^32
U64Small(x) == x[1] + Limb * x[2]

\* c is the ceiling of num / den: the least integer not below the quotient
IsCeiling(c, num, den) ==
    /\ DecLE(num, DecMul(c, den))
    /\ c > 0 => ~DecLE(num, DecMul(c - 1, den))

\* C31: the handle's bitSize is the ceiling of -n * ln(p) / ln(2)^2, and
\* its hashCount is the ceiling of (bitSize / n) * ln(2), taken from that
\* bitSize, or 1 when that ceiling is less than 1, as it is for a bitSize
\* of 0.
C31_StandardFormulas ==
    /\ Built /\ ctor.res.handle = "bloomFilter" /\ ctor.res.bitSize = <<0, 0, 0, 0>>
        => ctor.res.hashCount = U64FromSmall(1)
    /\ Built /\ Usable
        => LET n == ctor.cfg.ExpectedInsertions
               p == ctor.cfg.FalsePositiveRate
               m == U64Small(ctor.res.bitSize)
               k == U64Small(ctor.res.hashCount)
           IN  /\ ctor.res.bitSize[3] = 0 /\ ctor.res.bitSize[4] = 0
               /\ ctor.res.hashCount[3] = 0 /\ ctor.res.hashCount[4] = 0
               /\ IsCeiling(m, DecMul(n, NegLog(p)), Ln2Squared)
               /\ \/ k >= 1 /\ IsCeiling(k, DecMul(m, Ln2),
                                          DecShift(DecFromInt(n), Scale))
                  \/ k = 1 /\ m = 0

\* three insertions at a rate of 0.5: 4.33 rounds up to 5 bits, and 1.16,
\* from those 5 bits, to 2 rounds
C31_Witness ==
    /\ ctor.pc = "built" /\ Usable
    /\ ctor.cfg.ExpectedInsertions = 3 /\ ctor.cfg.FalsePositiveRate = 50
    /\ ctor.res.bitSize = U64FromSmall(5)
    /\ ctor.res.hashCount = U64FromSmall(2)

\* C32: on a handle whose client yields no pipeline, Add returns
\* ErrNilRedisClient and Exists returns (false, ErrNilRedisClient); no call
\* queues a command, executes a batch or issues an Expire, no call is ever
\* waiting on the store, and the store stays empty.
C32_NoPipeline ==
    Pipeline(bf.config.RedisClient) = "nil"
        => /\ calls = EmptyBag
           /\ store = [k \in Keys |-> EmptyKey]
           /\ everSet = {}
           /\ last.pc = "ret"
                 => /\ last.err = ErrNilRedisClient
                    /\ last.val = FALSE
                    /\ last.cmds = <<>> /\ last.done = 0
                    /\ last.execs = 0 /\ last.expires = 0

\* the last of MaxCalls calls on such a handle, built with a TTL, is an
\* Exists and has returned
C32_Witness ==
    /\ Pipeline(bf.config.RedisClient) = "nil"
    /\ bf.config.TTL > 0
    /\ ncalls = MaxCalls
    /\ Returned("exists") /\ last.err = ErrNilRedisClient /\ last.val = FALSE
    /\ store[bf.config.RedisKey] = EmptyKey

====
